---------------------------- MODULE Spec2Model ----------------------------
(***************************************************************************)
(* A model of scripts/tracker.py, the AWS carbon-emissions tracker.        *)
(*                                                                         *)
(* The script's numbers are Python floats.  They are modelled as binary    *)
(* floating-point numbers with round-to-nearest-even, gradual underflow    *)
(* and overflow to infinity, exactly as IEEE-754 prescribes, in a format   *)
(* whose precision and exponent range are scaled down (Python: 53 bits,    *)
(* exponents -1074 .. 971 for an integer significand).  Only non-negative  *)
(* numbers are modelled: every quantity the properties below speak about   *)
(* (watts, hours, invocations, milliseconds, megabytes, factors) is        *)
(* non-negative.                                                           *)
(***************************************************************************)
EXTENDS Integers, Sequences, FiniteSets, TLC

\* Bits of the significand (Python floats have 53).
Precision == 12
\* The largest exponent of a finite number m * 2^e, m < 2^Precision.
MaxExp == 20
\* The magnitude of the smallest exponent: the smallest positive number is
\* 2^(-MinExpMag).
MinExpMag == 40

MinExp == 0 - MinExpMag

Max(a, b) == IF a >= b THEN a ELSE b

Min(a, b) == IF a <= b THEN a ELSE b

RECURSIVE BitLen(_)
\* The number of bits of the natural number n (0 for 0).
BitLen(n) == IF n = 0 THEN 0 ELSE 1 + BitLen(n \div 2)

---------------------------------------------------------------------------
(* Floating-point values.  A finite value is [m, e], standing for m * 2^e,  *)
(* in canonical form: either 2^(Precision-1) <= m < 2^Precision (normal),   *)
(* or e = MinExp and m < 2^(Precision-1) (zero and the subnormals).         *)

Zero == [m |-> 0, e |-> MinExp]

Inf == [m |-> 2^(Precision - 1), e |-> MaxExp + 1]

NaN == [m |-> 0, e |-> MaxExp + 2]

MinSubnormal == [m |-> 1, e |-> MinExp]

MaxFloat == [m |-> 2^Precision - 1, e |-> MaxExp]

\* A finite result, or infinity when the exponent is out of range.
Pack(m, e) == IF e > MaxExp THEN Inf ELSE [m |-> m, e |-> e]

\* The float nearest to the exact value n * 2^e (n a natural number), ties to
\* the even significand.
Round(n, e) ==
  IF n = 0 THEN Zero
  ELSE LET b == BitLen(n)
           s == Max(b - Precision, MinExp - e)
       IN IF s <= 0
          THEN LET k == Min(Precision - b, e - MinExp)
               IN Pack(n * 2^k, e - k)
          ELSE IF s > b
               THEN Zero
               ELSE LET q == n \div 2^s
                        r == n % 2^s
                        half == 2^(s - 1)
                        up == IF r > half \/ (r = half /\ q % 2 = 1)
                              THEN 1 ELSE 0
                    IN IF q + up = 2^Precision
                       THEN Pack(2^(Precision - 1), e + s + 1)
                       ELSE Pack(q + up, e + s)

\* The float of an integer (Python's int -> float conversion in mixed
\* arithmetic).
F(n) == Round(n, 0)

\* The float nearest to (a / b) * 2^k, for integers a >= 0, b > 0: what
\* Python's parser makes of a decimal literal.
Literal(a, b, k) ==
  IF a = 0 THEN Zero
  ELSE LET t == Precision + 2 + BitLen(b) - BitLen(a)
           num == IF t >= 0 THEN a * 2^t ELSE a
           den == IF t >= 0 THEN b ELSE b * 2^(0 - t)
           q == num \div den
           r == num % den
       IN Round(2 * q + (IF r = 0 THEN 0 ELSE 1), k - t - 1)

\* x * y on floats.
FMul(x, y) ==
  IF x = NaN \/ y = NaN THEN NaN
  ELSE IF x = Inf \/ y = Inf
       THEN (IF x = Zero \/ y = Zero THEN NaN ELSE Inf)
       ELSE Round(x.m * y.m, x.e + y.e)

\* x / y on floats, for a finite divisor y > 0.
FDiv(x, y) ==
  IF x = NaN THEN NaN
  ELSE IF x = Inf THEN Inf
  ELSE IF x = Zero THEN Zero
  ELSE LET sh == Precision - BitLen(x.m)
           num == x.m * 2^(sh + Precision + 2)
           q == num \div y.m
           r == num % y.m
       IN Round(2 * q + (IF r = 0 THEN 0 ELSE 1),
                x.e - sh - Precision - 2 - y.e - 1)

---------------------------------------------------------------------------
(* Python values used by the script.                                       *)

\* dict: a function from its keys to its values; {} is the empty function.
EmptyDict == [k \in {} |-> Zero]

\* d.get(key, default)
DictGet(d, key, default) == IF key \in DOMAIN d THEN d[key] ELSE default

\* A dict that keeps the first value of a key.
DictPutIfAbsent(d, key, value) ==
  [k \in DOMAIN d \cup {key} |-> IF k \in DOMAIN d THEN d[k] ELSE value]

\* d[key] = value, as a dict comprehension does for each entry in turn.
DictPut(d, key, value) ==
  [k \in DOMAIN d \cup {key} |-> IF k = key THEN value ELSE d[k]]

\* The literal 0.392.
DefaultEmissionFactor == Literal(49, 125, 0)

\* default_watts of estimate_energy_kwh.
DefaultWattsEc2 == F(20)

\* The RDS default copied from the EC2 estimator.
DefaultWattsRdsCopied == F(20)

\* default_watts of estimate_energy_kwh_rds.
DefaultWattsRds == F(25)

\* The literal 0.0000005 = 2^(-7) / 15625.
LambdaEnergyConstant == Literal(1, 15625, 0 - 7)

---------------------------------------------------------------------------
(* Utility functions.                                                      *)

\* (now - launch_time).total_seconds() / 3600, times in whole seconds.
calculate_uptime_hours(launch_time, now) == FDiv(F(now - launch_time), F(3600))

\* The factor hardwired instead of passed.
calculate_emissions_hardwired(energy_kwh, emission_factor) ==
  FMul(energy_kwh, DefaultEmissionFactor)

calculate_emissions(energy_kwh, emission_factor) ==
  FMul(energy_kwh, emission_factor)

---------------------------------------------------------------------------
(* Power maps: data is what json.load returns, a list of records.          *)

RECURSIVE load_power_map_ec2_from(_, _, _)
load_power_map_ec2_from(data, i, d) ==
  IF i > Len(data) THEN d
  ELSE load_power_map_ec2_from(
         data, i + 1, DictPut(d, data[i].instanceType, data[i].watts))

load_power_map_ec2(data) == load_power_map_ec2_from(data, 1, EmptyDict)

RECURSIVE load_power_map_rds_from(_, _, _)
load_power_map_rds_from(data, i, d) ==
  IF i > Len(data) THEN d
  ELSE load_power_map_rds_from(
         data, i + 1, DictPut(d, data[i].instanceClass, data[i].watts))

load_power_map_rds(data) == load_power_map_rds_from(data, 1, EmptyDict)

---------------------------------------------------------------------------
(* Estimators.                                                             *)

\* The estimator without the division by 1000: watt-hours.
estimate_energy_wh(instance_type, uptime_hours, power_map, default_watts) ==
  LET watts == DictGet(power_map, instance_type, default_watts)
  IN FMul(watts, uptime_hours)

estimate_energy_kwh(instance_type, uptime_hours, power_map, default_watts) ==
  LET watts == DictGet(power_map, instance_type, default_watts)
  IN FDiv(FMul(watts, uptime_hours), F(1000))

estimate_energy_kwh_rds(instance_class, uptime_hours, power_map, default_watts) ==
  LET watts == DictGet(power_map, instance_class, default_watts)
  IN FDiv(FMul(watts, uptime_hours), F(1000))

\* The Lambda estimator with a gigabyte of 1000 MB.
estimate_lambda_emissions_decimal_gb(invocations, duration_ms, memory_mb, emission_factor) ==
  LET memory_gb == FDiv(F(memory_mb), F(1000))
      energy_kwh == FMul(FMul(FMul(invocations, duration_ms), memory_gb),
                         LambdaEnergyConstant)
      co2e == FMul(energy_kwh, emission_factor)
  IN <<energy_kwh, co2e>>

\* memory_mb is an integer; the result is the pair (energy_kwh, co2e).
estimate_lambda_emissions(invocations, duration_ms, memory_mb, emission_factor) ==
  LET memory_gb == FDiv(F(memory_mb), F(1024))
      energy_kwh == FMul(FMul(FMul(invocations, duration_ms), memory_gb),
                         LambdaEnergyConstant)
      co2e == FMul(energy_kwh, emission_factor)
  IN <<energy_kwh, co2e>>

---------------------------------------------------------------------------
(* Enumerators: the part of each that follows the provider's response.     *)

RECURSIVE Flatten(_)
\* The instances of every reservation, in response order.
Flatten(reservations) ==
  IF reservations = <<>> THEN <<>>
  ELSE Head(reservations) \o Flatten(Tail(reservations))

\* A get_ec2 that returns the empty list without a notice.
get_ec2_notice_never(reservations) == FALSE

\* get_ec2 prints its notice exactly on an empty Reservations list.
get_ec2_notice(reservations) == reservations = <<>>

get_ec2_instances(reservations) ==
  IF reservations = <<>> THEN <<>> ELSE Flatten(reservations)

\* get_rds prints its notice exactly on an empty DBInstances list.
get_rds_notice(db_instances) == db_instances = <<>>

\* The value get_lambda_metrics takes from one metric's Datapoints.
metric_sum(datapoints) ==
  IF datapoints # <<>> THEN datapoints[1].Sum ELSE Zero

\* The pair (invocations_sum, duration_sum).
get_lambda_metrics(invocations, duration) ==
  <<metric_sum(invocations), metric_sum(duration)>>

---------------------------------------------------------------------------
(* The run of main(), one step per provider call, file load or loop pass.  *)
(* A resource's block of printed lines is one item of the output; it keeps *)
(* the resource's identifier, energy and emissions, and leaves out the     *)
(* region and the rounding of the figures to the printed decimals.         *)

VARIABLES
  pc,               \* main's position
  out,              \* what has been printed, oldest first
  calls,            \* the provider API calls made, oldest first
  crash,            \* the exception that ended the run, if any
  now,              \* the clock, in seconds
  reservations,     \* response["Reservations"] of describe_instances
  instances,        \* main's instances
  ec2_data,         \* what json.load returned for ec2_power_data.json
  power_map_ec2,
  idx,              \* the position of the running for loop
  rds_instances,
  rds_data,         \* what json.load returned for rds_power_data.json
  power_map_rds,
  pages,            \* the pages the Lambda paginator has yet to yield
  lambda_functions,
  inv_datapoints,   \* Datapoints of the last Invocations query
  dur_datapoints,   \* Datapoints of the last Duration query
  metrics,          \* the last result of get_lambda_metrics
  call              \* a single call of one function (specification FnSpec)

vars == <<pc, out, calls, crash, now, reservations, instances, ec2_data,
          power_map_ec2, idx, rds_instances, rds_data, power_map_rds, pages,
          lambda_functions, inv_datapoints, dur_datapoints, metrics, call>>

ec2_vars == <<reservations, instances, ec2_data, power_map_ec2>>

rds_vars == <<rds_instances, rds_data, power_map_rds>>

lambda_vars == <<pages, lambda_functions, inv_datapoints, dur_datapoints, metrics>>

\* One printed item: a section header, a "No ... found." notice, or the block
\* of lines main prints for one resource.
Header(section) ==
  [kind |-> "header", section |-> section, id |-> "", energy |-> Zero, co2e |-> Zero]

Notice(section) ==
  [kind |-> "notice", section |-> section, id |-> "", energy |-> Zero, co2e |-> Zero]

Block(section, id, energy_kwh, co2e) ==
  [kind |-> "block", section |-> section, id |-> id, energy |-> energy_kwh,
   co2e |-> co2e]

NoCrash == [kind |-> "none", error |-> "", at |-> "", calls |-> <<>>, out |-> <<>>]

NoCall == [fn |-> "none", args |-> <<>>, ret |-> Zero]

\* The provider API a position of main calls.
ApiAt(at) ==
  CASE at = "get_ec2" -> "ec2.describe_instances"
    [] at = "get_rds" -> "rds.describe_db_instances"
    [] at = "list_functions" -> "lambda.list_functions"
    [] at = "cw_invocations" -> "cloudwatch.get_metric_statistics"
    [] at = "cw_duration" -> "cloudwatch.get_metric_statistics"

\* A main that catches the exception and tries the call again.
AfterFailureRetry(at) == at

\* Where main is after an exception raised at a position: nothing in the
\* script catches it, so the run is over.
AfterFailure(at) == "crashed"

(* The provider's answers and the files' contents a run may meet. *)

Instance1 == [InstanceId |-> "i-1", InstanceType |-> "t2.micro", LaunchTime |-> 0]

Instance2 == [InstanceId |-> "i-2", InstanceType |-> "c9.unknown", LaunchTime |-> 21600]

Ec2Responses ==
  { <<>>, << <<>> >>, << <<Instance1>> >>, << <<Instance1>>, <<Instance2>> >>,
    << <<>>, <<Instance2, Instance1>> >> }

Ec2Record(type, watts) == [instanceType |-> type, watts |-> F(watts)]

Ec2PowerData ==
  { <<>>, <<Ec2Record("t2.micro", 5)>>,
    <<Ec2Record("t2.micro", 5), Ec2Record("t2.micro", 10)>>,
    <<Ec2Record("t2.micro", 5), Ec2Record("m5.large", 10)>>,
    <<Ec2Record("m5.large", 10), Ec2Record("t2.micro", 5), Ec2Record("m5.large", 5)>> }

Db1 ==
  [DBInstanceIdentifier |-> "db-1", DBInstanceClass |-> "db.unknown",
   InstanceCreateTime |-> 21600]

Db2 ==
  [DBInstanceIdentifier |-> "db-2", DBInstanceClass |-> "db.t3.micro",
   InstanceCreateTime |-> 0]

RdsResponses == { <<>>, <<Db1>>, <<Db2, Db1>> }

RdsRecord(class, watts) == [instanceClass |-> class, watts |-> F(watts)]

RdsPowerData ==
  { <<>>, <<RdsRecord("db.t3.micro", 10)>>,
    <<RdsRecord("db.t3.micro", 10), RdsRecord("db.t3.micro", 5)>> }

\* open() or json.load raises on these.
BadFiles == {"missing", "malformed"}

Function1 == [FunctionName |-> "f-1", MemorySize |-> 128]

Function2 == [FunctionName |-> "f-2", MemorySize |-> 512]

Paginations ==
  { << <<>> >>, << <<Function1>> >>, << <<Function1>>, <<Function2>> >> }

Datapoint(sum) == [Sum |-> F(sum)]

InvocationDatapoints == { <<>>, <<Datapoint(100)>>, <<Datapoint(100), Datapoint(3)>> }

DurationDatapoints == { <<>>, <<Datapoint(500)>>, <<Datapoint(500), Datapoint(7)>> }

Init ==
  /\ pc = "start"
  /\ out = <<>>
  /\ calls = <<>>
  /\ crash = NoCrash
  /\ now = 36000
  /\ reservations = <<>>
  /\ instances = <<>>
  /\ ec2_data = <<>>
  /\ power_map_ec2 = EmptyDict
  /\ idx = 1
  /\ rds_instances = <<>>
  /\ rds_data = <<>>
  /\ power_map_rds = EmptyDict
  /\ pages = <<>>
  /\ lambda_functions = <<>>
  /\ inv_datapoints = <<>>
  /\ dur_datapoints = <<>>
  /\ metrics = <<Zero, Zero>>
  /\ call = NoCall

\* print("===== EC2 INSTANCES =====")
StartMain ==
  /\ pc = "start"
  /\ call = NoCall
  /\ out' = Append(out, Header("EC2"))
  /\ pc' = "get_ec2"
  /\ UNCHANGED <<calls, crash, now, ec2_vars, idx, rds_vars, lambda_vars, call>>

\* A provider call raises: describe_instances, describe_db_instances, a page
\* of list_functions, or either get_metric_statistics query.
ProviderCallFails ==
  /\ pc \in {"get_ec2", "get_rds", "list_functions", "cw_invocations", "cw_duration"}
  /\ calls' = Append(calls, ApiAt(pc))
  /\ crash' = [kind |-> "provider", error |-> ApiAt(pc), at |-> pc,
               calls |-> calls', out |-> out]
  /\ pc' = AfterFailure(pc)
  /\ UNCHANGED <<out, now, ec2_vars, idx, rds_vars, lambda_vars, call>>

\* instances = get_ec2()
GetEc2 ==
  /\ pc = "get_ec2"
  /\ \E response \in Ec2Responses :
       /\ reservations' = response
       /\ instances' = get_ec2_instances(response)
       /\ out' = IF get_ec2_notice(response) THEN Append(out, Notice("EC2")) ELSE out
  /\ calls' = Append(calls, ApiAt(pc))
  /\ pc' = "load_ec2"
  /\ UNCHANGED <<crash, now, ec2_data, power_map_ec2, idx, rds_vars, lambda_vars, call>>

\* power_map_ec2 = load_power_map_ec2()
LoadPowerMapEc2 ==
  /\ pc = "load_ec2"
  /\ \E data \in Ec2PowerData :
       /\ ec2_data' = data
       /\ power_map_ec2' = load_power_map_ec2(data)
  /\ idx' = 1
  /\ pc' = "ec2_loop"
  /\ UNCHANGED <<out, calls, crash, now, reservations, instances, rds_vars,
                 lambda_vars, call>>

\* load_power_map_ec2() raises: the file is missing or is not JSON.
LoadPowerMapEc2Fails ==
  /\ pc = "load_ec2"
  /\ \E file \in BadFiles :
       crash' = [kind |-> "file", error |-> file, at |-> pc, calls |-> calls,
                 out |-> out]
  /\ pc' = AfterFailure(pc)
  /\ UNCHANGED <<out, calls, now, ec2_vars, idx, rds_vars, lambda_vars, call>>

\* One pass of "for instance in instances".
ReportEc2Instance ==
  /\ pc = "ec2_loop"
  /\ idx <= Len(instances)
  /\ LET instance == instances[idx]
         uptime_hours == calculate_uptime_hours(instance.LaunchTime, now)
         energy_kwh == estimate_energy_kwh(instance.InstanceType, uptime_hours,
                                           power_map_ec2, DefaultWattsEc2)
         co2e == calculate_emissions(energy_kwh, DefaultEmissionFactor)
     IN out' = Append(out, Block("EC2", instance.InstanceId, energy_kwh, co2e))
  /\ idx' = idx + 1
  /\ UNCHANGED <<pc, calls, crash, now, ec2_vars, rds_vars, lambda_vars, call>>

\* The EC2 loop is over: print("\n===== RDS DATABASES =====")
Ec2LoopDone ==
  /\ pc = "ec2_loop"
  /\ idx > Len(instances)
  /\ out' = Append(out, Header("RDS"))
  /\ pc' = "get_rds"
  /\ UNCHANGED <<calls, crash, now, ec2_vars, idx, rds_vars, lambda_vars, call>>

\* rds_instances = get_rds()
GetRds ==
  /\ pc = "get_rds"
  /\ \E response \in RdsResponses :
       /\ rds_instances' = response
       /\ out' = IF get_rds_notice(response) THEN Append(out, Notice("RDS")) ELSE out
  /\ calls' = Append(calls, ApiAt(pc))
  /\ pc' = "load_rds"
  /\ UNCHANGED <<crash, now, ec2_vars, idx, rds_data, power_map_rds, lambda_vars, call>>

\* power_map_rds = load_power_map_rds()
LoadPowerMapRds ==
  /\ pc = "load_rds"
  /\ \E data \in RdsPowerData :
       /\ rds_data' = data
       /\ power_map_rds' = load_power_map_rds(data)
  /\ idx' = 1
  /\ pc' = "rds_loop"
  /\ UNCHANGED <<out, calls, crash, now, ec2_vars, rds_instances, lambda_vars, call>>

\* load_power_map_rds() raises: the file is missing or is not JSON.
LoadPowerMapRdsFails ==
  /\ pc = "load_rds"
  /\ \E file \in BadFiles :
       crash' = [kind |-> "file", error |-> file, at |-> pc, calls |-> calls,
                 out |-> out]
  /\ pc' = AfterFailure(pc)
  /\ UNCHANGED <<out, calls, now, ec2_vars, idx, rds_vars, lambda_vars, call>>

\* One pass of "for db in rds_instances".
ReportRdsInstance ==
  /\ pc = "rds_loop"
  /\ idx <= Len(rds_instances)
  /\ LET db == rds_instances[idx]
         uptime_hours == calculate_uptime_hours(db.InstanceCreateTime, now)
         energy_kwh == estimate_energy_kwh_rds(db.DBInstanceClass, uptime_hours,
                                               power_map_rds, DefaultWattsRds)
         co2e == calculate_emissions(energy_kwh, DefaultEmissionFactor)
     IN out' = Append(out, Block("RDS", db.DBInstanceIdentifier, energy_kwh, co2e))
  /\ idx' = idx + 1
  /\ UNCHANGED <<pc, calls, crash, now, ec2_vars, rds_vars, lambda_vars, call>>

\* The RDS loop is over: print("\n===== LAMBDA FUNCTIONS (24h window) =====");
\* the paginator is created with the pages the provider holds.
RdsLoopDone ==
  /\ pc = "rds_loop"
  /\ idx > Len(rds_instances)
  /\ out' = Append(out, Header("LAMBDA"))
  /\ pages' \in Paginations
  /\ pc' = "list_functions"
  /\ UNCHANGED <<calls, crash, now, ec2_vars, idx, rds_vars, lambda_functions,
                 inv_datapoints, dur_datapoints, metrics, call>>

\* One page of get_lambda_functions(); after the last one main either prints
\* its notice and returns, or starts its loop over the functions.
ListFunctionsPage ==
  /\ pc = "list_functions"
  /\ pages # <<>>
  /\ calls' = Append(calls, ApiAt(pc))
  /\ lambda_functions' = lambda_functions \o Head(pages)
  /\ pages' = Tail(pages)
  /\ idx' = 1
  /\ IF pages' # <<>>
     THEN UNCHANGED <<pc, out>>
     ELSE IF lambda_functions' = <<>>
          THEN out' = Append(out, Notice("LAMBDA")) /\ pc' = "done"
          ELSE out' = out /\ pc' = "cw_invocations"
  /\ UNCHANGED <<crash, now, ec2_vars, rds_vars, inv_datapoints, dur_datapoints,
                 metrics, call>>

\* get_lambda_metrics: the Invocations query returns.
QueryInvocations ==
  /\ pc = "cw_invocations"
  /\ calls' = Append(calls, ApiAt(pc))
  /\ inv_datapoints' \in InvocationDatapoints
  /\ pc' = "cw_duration"
  /\ UNCHANGED <<out, crash, now, ec2_vars, idx, rds_vars, pages, lambda_functions,
                 dur_datapoints, metrics, call>>

\* get_lambda_metrics: the Duration query returns; the rest of the pass of
\* "for func in lambda_functions" follows.
QueryDuration ==
  /\ pc = "cw_duration"
  /\ calls' = Append(calls, ApiAt(pc))
  /\ dur_datapoints' \in DurationDatapoints
  /\ metrics' = get_lambda_metrics(inv_datapoints, dur_datapoints')
  /\ LET func == lambda_functions[idx]
         estimate == estimate_lambda_emissions(metrics'[1], metrics'[2],
                                               func.MemorySize, DefaultEmissionFactor)
     IN out' = Append(out, Block("LAMBDA", func.FunctionName, estimate[1], estimate[2]))
  /\ idx' = idx + 1
  /\ pc' = IF idx' > Len(lambda_functions) THEN "done" ELSE "cw_invocations"
  /\ UNCHANGED <<crash, now, ec2_vars, rds_vars, pages, lambda_functions,
                 inv_datapoints, call>>

Next ==
  \/ StartMain
  \/ ProviderCallFails
  \/ GetEc2
  \/ LoadPowerMapEc2
  \/ LoadPowerMapEc2Fails
  \/ ReportEc2Instance
  \/ Ec2LoopDone
  \/ GetRds
  \/ LoadPowerMapRds
  \/ LoadPowerMapRdsFails
  \/ ReportRdsInstance
  \/ RdsLoopDone
  \/ ListFunctionsPage
  \/ QueryInvocations
  \/ QueryDuration

Spec == Init /\ [][Next]_vars

---------------------------------------------------------------------------
(* Single calls of the script's functions, on arguments drawn from the     *)
(* sets below.                                                             *)

\* Non-negative finite floats, from the smallest to the largest.
FloatInputs ==
  { Zero, MinSubnormal, [m |-> 3, e |-> MinExp], Literal(1, 5, 0 - 2), F(1), F(4),
    F(10), F(500), MaxFloat }

Factors ==
  { Zero, MinSubnormal, DefaultEmissionFactor, Literal(1, 2, 0), F(1), F(3), MaxFloat }

Watts == { Zero, MinSubnormal, F(5), F(10), F(25), MaxFloat }

TypeNames == { "t2.micro", "m5.large", "db.unknown" }

PowerMaps ==
  {EmptyDict}
    \cup { [k \in {"t2.micro"} |-> w] : w \in Watts }
    \cup { [k \in {"t2.micro", "m5.large"} |-> IF k = "t2.micro" THEN w ELSE F(10)] :
             w \in Watts }

MemorySizes == { 0, 128, 512, 1000 }

CallCalculateEmissions ==
  /\ call = NoCall
  /\ \E energy_kwh \in FloatInputs, emission_factor \in Factors :
       call' = [fn |-> "calculate_emissions",
                args |-> <<energy_kwh, emission_factor>>,
                ret |-> calculate_emissions(energy_kwh, emission_factor)]
  /\ UNCHANGED <<pc, out, calls, crash, now, ec2_vars, idx, rds_vars, lambda_vars>>

\* estimate_energy_kwh(instance_type, uptime_hours, power_map), as main calls it.
CallEstimateEnergyKwh ==
  /\ call = NoCall
  /\ \E instance_type \in TypeNames, uptime_hours \in FloatInputs,
        power_map \in PowerMaps :
       call' = [fn |-> "estimate_energy_kwh",
                args |-> <<instance_type, uptime_hours, power_map>>,
                ret |-> estimate_energy_kwh(instance_type, uptime_hours, power_map,
                                            DefaultWattsEc2)]
  /\ UNCHANGED <<pc, out, calls, crash, now, ec2_vars, idx, rds_vars, lambda_vars>>

\* estimate_energy_kwh_rds(instance_class, uptime_hours, power_map), as main
\* calls it.
CallEstimateEnergyKwhRds ==
  /\ call = NoCall
  /\ \E instance_class \in TypeNames, uptime_hours \in FloatInputs,
        power_map \in PowerMaps :
       call' = [fn |-> "estimate_energy_kwh_rds",
                args |-> <<instance_class, uptime_hours, power_map>>,
                ret |-> estimate_energy_kwh_rds(instance_class, uptime_hours,
                                                power_map, DefaultWattsRds)]
  /\ UNCHANGED <<pc, out, calls, crash, now, ec2_vars, idx, rds_vars, lambda_vars>>

CallEstimateLambdaEmissions ==
  /\ call = NoCall
  /\ \E invocations \in FloatInputs \cup {F(100)}, duration_ms \in FloatInputs,
        memory_mb \in MemorySizes, emission_factor \in Factors :
       call' = [fn |-> "estimate_lambda_emissions",
                args |-> <<invocations, duration_ms, memory_mb, emission_factor>>,
                ret |-> estimate_lambda_emissions(invocations, duration_ms,
                                                  memory_mb, emission_factor)]
  /\ UNCHANGED <<pc, out, calls, crash, now, ec2_vars, idx, rds_vars, lambda_vars>>

FnNext ==
  \/ CallCalculateEmissions
  \/ CallEstimateEnergyKwh
  \/ CallEstimateEnergyKwhRds
  \/ CallEstimateLambdaEmissions

FnSpec == Init /\ [][FnNext]_vars

---------------------------------------------------------------------------
(* Vocabulary of the properties.                                           *)

Range(seq) == { seq[i] : i \in DOMAIN seq }

\* The position of a float in the ascending order of all floats.
Ord(x) == (x.e - MinExp) * 2^(Precision - 1) + x.m

\* x <= y on floats (false when either is not a number).
FLe(x, y) == x # NaN /\ y # NaN /\ Ord(x) <= Ord(y)

\* The distance of two floats, counted in floats between them.
UlpDist(x, y) == IF Ord(x) >= Ord(y) THEN Ord(x) - Ord(y) ELSE Ord(y) - Ord(x)

\* The exact product of two finite positive floats is at most half the
\* smallest positive float: x.m * y.m * 2^k <= 1 for the k below.
Underflows(x, y) ==
  LET n == x.m * y.m
      k == x.e + y.e - MinExp + 1
  IN IF k >= 0
     THEN n = 1 /\ k = 0
     ELSE \/ BitLen(n) <= 0 - k
          \/ (BitLen(n) = 1 - k /\ n = 2^(BitLen(n) - 1))

\* The position main has reached: where it is, or where it was when an
\* exception ended it.
Position == IF pc = "crashed" THEN crash.at ELSE pc

Rank(at) ==
  CASE at = "start" -> 0
    [] at = "get_ec2" -> 1
    [] at = "load_ec2" -> 2
    [] at = "ec2_loop" -> 3
    [] at = "get_rds" -> 4
    [] at = "load_rds" -> 5
    [] at = "rds_loop" -> 6
    [] at = "list_functions" -> 7
    [] at = "cw_invocations" -> 8
    [] at = "cw_duration" -> 9
    [] at = "done" -> 10

\* get_ec2 has returned; load_power_map_ec2 has; get_rds has; ...
Ec2Described == Rank(Position) >= 2

Ec2Loaded == Rank(Position) >= 3

RdsLoaded == Rank(Position) >= 6

EnergyCall == call.fn \in {"estimate_energy_kwh", "estimate_energy_kwh_rds"}

\* The estimator a call record names, on other arguments.
EnergyOf(fn, type, hours, power_map) ==
  IF fn = "estimate_energy_kwh"
  THEN estimate_energy_kwh(type, hours, power_map, DefaultWattsEc2)
  ELSE estimate_energy_kwh_rds(type, hours, power_map, DefaultWattsRds)

---------------------------------------------------------------------------
\* C1: for a type that is a key of the power map, both estimators return
\* (watts * hours) / 1000 with the map's watts, the result does not decrease
\* when the hours or the watts grow, and {"t2.micro": 5}, 10 h gives 0.05 kWh.
C1_EnergyFormula ==
  (EnergyCall /\ call.args[1] \in DOMAIN call.args[3]) =>
    LET type == call.args[1]
        hours == call.args[2]
        power_map == call.args[3]
        watts == power_map[type]
    IN /\ call.ret = FDiv(FMul(watts, hours), F(1000))
       /\ \A h2 \in FloatInputs :
            FLe(hours, h2) => FLe(call.ret, EnergyOf(call.fn, type, h2, power_map))
       /\ \A w2 \in Watts :
            FLe(watts, w2) =>
              FLe(call.ret,
                  EnergyOf(call.fn, type, hours, [power_map EXCEPT ![type] = w2]))
       /\ (watts = F(5) /\ hours = F(10)) => call.ret = Literal(1, 5, 0 - 2)

\* C1's case: estimate_energy_kwh("t2.micro", 10, {"t2.micro": 5}) = 0.05.
C1_Witness ==
  /\ call.fn = "estimate_energy_kwh"
  /\ call.args = <<"t2.micro", F(10), [k \in {"t2.micro"} |-> F(5)]>>
  /\ call.ret = Literal(1, 20, 0)

\* C2: for a type that is no key of the power map the estimators use the
\* default wattage, 20 W for EC2 and 25 W for RDS; the empty RDS map,
\* "db.unknown" and 4 h give 0.1 kWh and (to the last place) 0.0392 kg.
C2_DefaultWatts ==
  (EnergyCall /\ call.args[1] \notin DOMAIN call.args[3]) =>
    LET hours == call.args[2]
        default == IF call.fn = "estimate_energy_kwh" THEN F(20) ELSE F(25)
    IN /\ call.ret = FDiv(FMul(default, hours), F(1000))
       /\ (call.fn = "estimate_energy_kwh_rds" /\ hours = F(4)) =>
            /\ call.ret = Literal(1, 5, 0 - 1)
            /\ UlpDist(calculate_emissions(call.ret, DefaultEmissionFactor),
                       Literal(49, 625, 0 - 1)) <= 1

\* C2's case: estimate_energy_kwh_rds("db.unknown", 4, {}) = 0.1.
C2_Witness ==
  /\ call.fn = "estimate_energy_kwh_rds"
  /\ call.args = <<"db.unknown", F(4), EmptyDict>>
  /\ call.ret = Literal(1, 10, 0)

\* C3, as stated: calculate_emissions returns energy * factor, and the result
\* is 0 if and only if the energy or the factor is 0.
C3_ZeroIffAnArgumentIsZero ==
  call.fn = "calculate_emissions" =>
    LET energy_kwh == call.args[1]
        emission_factor == call.args[2]
    IN /\ call.ret = FMul(energy_kwh, emission_factor)
       /\ call.ret = Zero <=> (energy_kwh = Zero \/ emission_factor = Zero)

\* C3, amended: calculate_emissions returns the float product energy * factor
\* (the default factor being 0.392); the result is 0 whenever the energy or
\* the factor is 0, and otherwise it is 0 exactly when the exact product is at
\* most half the smallest positive float.
C3_ZeroIffZeroOrUnderflow ==
  /\ DefaultEmissionFactor = Literal(392, 1000, 0)
  /\ call.fn = "calculate_emissions" =>
       LET energy_kwh == call.args[1]
           emission_factor == call.args[2]
       IN /\ call.ret = FMul(energy_kwh, emission_factor)
          /\ (energy_kwh = Zero \/ emission_factor = Zero) => call.ret = Zero
          /\ call.ret = Zero <=>
               \/ energy_kwh = Zero
               \/ emission_factor = Zero
               \/ Underflows(energy_kwh, emission_factor)

\* C3's case: a positive energy and the default factor whose product
\* underflows to 0.
C3_Witness ==
  /\ call.fn = "calculate_emissions"
  /\ call.args = <<MinSubnormal, DefaultEmissionFactor>>
  /\ call.ret = Zero

\* C4: estimate_lambda_emissions returns the energy
\* invocations * duration_ms * (memory_mb / 1024) * 5e-7 and the emissions
\* calculate_emissions gives for that energy and the same factor; (100, 500,
\* 128) and the default factor give 0.003125 kWh and 0.001225 kg, to the last
\* places.
C4_LambdaFormula ==
  call.fn = "estimate_lambda_emissions" =>
    LET invocations == call.args[1]
        duration_ms == call.args[2]
        memory_mb == call.args[3]
        emission_factor == call.args[4]
    IN /\ call.ret[1] =
            FMul(FMul(FMul(invocations, duration_ms), FDiv(F(memory_mb), F(1024))),
                 Literal(1, 15625, 0 - 7))
       /\ call.ret[2] = calculate_emissions(call.ret[1], emission_factor)
       /\ ( /\ invocations = F(100)
            /\ duration_ms = F(500)
            /\ memory_mb = 128
            /\ emission_factor = DefaultEmissionFactor ) =>
            /\ UlpDist(call.ret[1], Literal(1, 5, 0 - 6)) <= 1
            /\ UlpDist(call.ret[2], Literal(49, 625, 0 - 6)) <= 2

\* C4's case: estimate_lambda_emissions(100, 500, 128) has returned.
C4_Witness ==
  /\ call.fn = "estimate_lambda_emissions"
  /\ call.args = <<F(100), F(500), 128, DefaultEmissionFactor>>
  /\ call.ret[1] # Zero
  /\ call.ret[2] # Zero

---------------------------------------------------------------------------
\* C5, as stated: when a power-table file is missing or malformed, nothing has
\* been printed at the moment the error is raised: no header, no notice, no
\* block.
C5_NothingPrintedBeforeFileError ==
  crash.kind = "file" => crash.out = <<>>

\* C6: when describe_instances returns no reservations, main prints the
\* EC2 notice and no EC2 block; once the EC2 power table is loaded the only
\* step it can take is the one that prints the RDS header, and from there it
\* calls describe_db_instances: the run goes on to the RDS section.
C6_EmptyEc2ContinuesToRds ==
  (Ec2Described /\ reservations = <<>>) =>
    /\ Len(out) >= 2
    /\ out[1] = Header("EC2")
    /\ out[2] = Notice("EC2")
    /\ \A i \in DOMAIN out : ~(out[i].kind = "block" /\ out[i].section = "EC2")
    /\ pc = "ec2_loop" => (ENABLED Ec2LoopDone /\ ~ENABLED ReportEc2Instance)
    /\ Rank(Position) >= 4 => (Len(out) >= 3 /\ out[3] = Header("RDS"))
    /\ pc = "get_rds" => ENABLED GetRds
    /\ Rank(Position) >= 5 => ApiAt("get_rds") \in Range(calls)

\* C6's case: no reservations, both power tables loaded, and the run is in the
\* RDS section after its enumeration.
C6_Witness ==
  /\ Ec2Described
  /\ reservations = <<>>
  /\ pc = "rds_loop"
  /\ out[2] = Notice("EC2")
  /\ out[3] = Header("RDS")
  /\ calls = <<ApiAt("get_ec2"), ApiAt("get_rds")>>

\* The records of a power table whose key is k, by position.
Ec2RecordsOf(data, k) == { i \in DOMAIN data : data[i].instanceType = k }

RdsRecordsOf(data, k) == { i \in DOMAIN data : data[i].instanceClass = k }

Last(S) == CHOOSE i \in S : \A j \in S : j <= i

\* C7, as stated: after the load every type or class of the file is a key of
\* the map, and the map holds for it the wattage of every record of the file
\* that names it.
C7_EveryRecordRoundTrips ==
  /\ Ec2Loaded =>
       \A i \in DOMAIN ec2_data :
         /\ ec2_data[i].instanceType \in DOMAIN power_map_ec2
         /\ power_map_ec2[ec2_data[i].instanceType] = ec2_data[i].watts
  /\ RdsLoaded =>
       \A i \in DOMAIN rds_data :
         /\ rds_data[i].instanceClass \in DOMAIN power_map_rds
         /\ power_map_rds[rds_data[i].instanceClass] = rds_data[i].watts

\* C7, amended: after the load the keys of the map are exactly the types or
\* classes of the file, and the map holds for each the wattage of the last
\* record of the file that names it.
C7_LastRecordRoundTrips ==
  /\ Ec2Loaded =>
       /\ DOMAIN power_map_ec2 = { ec2_data[i].instanceType : i \in DOMAIN ec2_data }
       /\ \A k \in DOMAIN power_map_ec2 :
            power_map_ec2[k] = ec2_data[Last(Ec2RecordsOf(ec2_data, k))].watts
  /\ RdsLoaded =>
       /\ DOMAIN power_map_rds = { rds_data[i].instanceClass : i \in DOMAIN rds_data }
       /\ \A k \in DOMAIN power_map_rds :
            power_map_rds[k] = rds_data[Last(RdsRecordsOf(rds_data, k))].watts

\* C7's case: a loaded file that names one type in two records with different
\* wattages.
C7_Witness ==
  /\ Ec2Loaded
  /\ \E i, j \in DOMAIN ec2_data :
       /\ i < j
       /\ ec2_data[i].instanceType = ec2_data[j].instanceType
       /\ ec2_data[i].watts # ec2_data[j].watts
       /\ power_map_ec2[ec2_data[i].instanceType] # ec2_data[i].watts

\* x + y on finite floats.
FAdd(x, y) ==
  LET hi == IF x.e >= y.e THEN x ELSE y
      lo == IF x.e >= y.e THEN y ELSE x
      d == hi.e - lo.e
  IN IF d > Precision + 2
     THEN Round(hi.m * 8 + (IF lo.m = 0 THEN 0 ELSE 1), hi.e - 3)
     ELSE Round(hi.m * 2^d + lo.m, lo.e)

RECURSIVE SumOfDatapoints(_)
\* The total of the Sum values of a list of datapoints.
SumOfDatapoints(datapoints) ==
  IF datapoints = <<>> THEN Zero
  ELSE FAdd(Head(datapoints).Sum, SumOfDatapoints(Tail(datapoints)))

\* C8, as stated: what get_lambda_metrics returns for a function is, for each
\* metric, the total of the Sum values of all the datapoints the query
\* returned, and 0 when it returned none.
C8_MetricsAreTotals ==
  (Position \in {"cw_invocations", "done"} /\ idx > 1) =>
    /\ metrics[1] = SumOfDatapoints(inv_datapoints)
    /\ metrics[2] = SumOfDatapoints(dur_datapoints)

\* C9: once a provider call has failed, main is over: the failed call is the
\* last call made, nothing has been printed since, no step is left to take.
C9_FailLoud ==
  /\ crash.kind = "provider" =>
       /\ pc = "crashed"
       /\ calls = crash.calls
       /\ calls[Len(calls)] = crash.error
       /\ out = crash.out
       /\ ~ENABLED Next
  /\ crash.kind = "none" => pc # "crashed"

\* C9's case: the Duration query of the second function fails, after a whole
\* report has been printed up to there.
C9_Witness ==
  /\ pc = "crashed"
  /\ crash.kind = "provider"
  /\ crash.at = "cw_duration"
  /\ idx = 2
  /\ Len(calls) = 8
  /\ \E i \in DOMAIN out : out[i].kind = "block" /\ out[i].section = "LAMBDA"

\* C10, as stated: get_ec2 returns every instance of every reservation in
\* response order, and it has printed its notice exactly when the list it
\* returns is empty.
C10_NoticeIffNoInstances ==
  Ec2Described =>
    /\ instances = Flatten(reservations)
    /\ instances = <<>> <=> Notice("EC2") \in Range(out)

=============================================================================
